---- MODULE Spec2Model ----
(***************************************************************************)
(* Model of app.py: the K-line projection script.  One run of the script   *)
(* is one behaviour: the sidebar loop collects the five per-day settings,  *)
(* the main page reads the lookback slider and fetches history, and the    *)
(* body projects five bars, merges them with history, adds the five        *)
(* moving-average columns and cuts the slice that is plotted.              *)
(*                                                                         *)
(* Dates are day numbers with day 0 a Monday, so weekday(d) = d % 7 is     *)
(* Python's date.weekday().  Prices are exact reals written as whole       *)
(* numbers of 1/Scale currency units; every value the bounded inputs can   *)
(* produce is a whole number of units, and the properties below are        *)
(* stated multiplicatively so that an inexact division would violate them. *)
(***************************************************************************)
EXTENDS Integers, Sequences, FiniteSets, TLC

\* ---------------------------------------------------------------- bounds
MaxHist == 2      \* longest hand-made history the provider may return
MaxBack == 2      \* hand-made bars are dated Today0-MaxBack .. Today0
Today0 == 1404    \* day number of datetime.now(); 1404 % 7 = 4, a Friday

\* ------------------------------------------------------ program constants
NumDays == 5      \* for i in range(1, 6)
FetchPad == 150   \* fetch_days = lookback + 150
PlotExtra == 5    \* df_full.iloc[-(lookback + 5):]
Lookbacks == {120, 250, 500, 1000}
ma_list == <<5, 10, 20, 60, 120>>

Scale == 32 * 120
NaN == <<>>

\* ------------------------------------------------------------- the inputs
\* One sidebar slot: the radio's mode and the value of the number_input
\* that the mode shows.
PriceValues == {0, 15 * Scale}
PercentValues == {0, -50}
Slots == [type : {"price"}, value : PriceValues]
           \cup [type : {"percent"}, value : PercentValues]
AllSessions == [1..NumDays -> Slots]

MixedA == <<[type |-> "percent", value |-> -50], [type |-> "price", value |-> 15 * Scale],
            [type |-> "price", value |-> 0], [type |-> "percent", value |-> -50],
            [type |-> "percent", value |-> 0]>>
MixedB == <<[type |-> "price", value |-> 0], [type |-> "percent", value |-> -50],
            [type |-> "percent", value |-> -50], [type |-> "price", value |-> 15 * Scale],
            [type |-> "price", value |-> 0]>>
HeadTail(a, b) == [i \in 1..NumDays |-> IF i = 1 THEN a ELSE b]
DeepSessions == {HeadTail(a, b) : a \in Slots, b \in Slots} \cup {MixedA, MixedB}

\* The provider's close for a day, and the bar it returns for that day.
ClosePrice(d) == Scale * (8 + (d % 5))
HistBar(d) == [date |-> d, open |-> ClosePrice(d), high |-> ClosePrice(d),
               low |-> ClosePrice(d), close |-> ClosePrice(d), volume |-> 1]

weekday(d) == d % 7

IsTradingDay(b) == weekday(b.date) < 5

\* One bar for every Monday-to-Friday day of the span, in date order.
CalendarBars(from, to) ==
    SelectSeq([i \in 1..(to - from + 1) |-> HistBar(from + i - 1)], IsTradingDay)

SeqsUpTo(S, n) == UNION {[1..k -> S] : k \in 0..n}
HandBars == {HistBar(d) : d \in (Today0 - MaxBack)..Today0}
SmallMarkets == {[kind |-> "rows", rows |-> r] : r \in SeqsUpTo(HandBars, MaxHist)}
DeepMarkets == {[kind |-> "calendar", rows |-> <<>>], [kind |-> "rows", rows |-> <<>>]}

\* ak.stock_zh_a_hist as seen by the script: the rows for the asked span.
stock_zh_a_hist(mk, start_date, end_date) ==
    IF mk.kind = "calendar" THEN CalendarBars(start_date, end_date) ELSE mk.rows

VARIABLES pc, session, slider, market,
          predict_settings, lookback, fetch_days, end_dt, start_dt, raw_df,
          df, last_price, last_date, future_rows, current_ref_price, current_date,
          df_full, df_plot, outcome

vars == <<pc, session, slider, market,
          predict_settings, lookback, fetch_days, end_dt, start_dt, raw_df,
          df, last_price, last_date, future_rows, current_ref_price, current_date,
          df_full, df_plot, outcome>>

envVars == <<session, slider, market>>
bodyVars == <<df, last_price, last_date, future_rows, current_ref_price, current_date,
              df_full, df_plot>>

InitEnv(sessions, markets) ==
    /\ session \in sessions
    /\ slider \in Lookbacks
    /\ market \in markets
    /\ pc = "sidebar"
    /\ predict_settings = <<>>
    /\ lookback = 0 /\ fetch_days = 0 /\ end_dt = 0 /\ start_dt = 0
    /\ raw_df = <<>>
    /\ df = <<>> /\ last_price = 0 /\ last_date = 0
    /\ future_rows = <<>> /\ current_ref_price = 0 /\ current_date = 0
    /\ df_full = <<>> /\ df_plot = <<>>
    /\ outcome = "pending"

Init == InitEnv(AllSessions, SmallMarkets)
InitDeep == InitEnv(DeepSessions, DeepMarkets)

\* ------------------------------------------------------------ the helpers
get_stock_history_safe(mk, start_date, end_date) ==
    LET res == stock_zh_a_hist(mk, start_date, end_date)
    IN  IF Len(res) > 0 THEN res ELSE <<>>

empty(frame) == Len(frame) = 0

RECURSIVE skip_sunday(_)
skip_sunday(d) == IF weekday(d) >= 6 THEN skip_sunday(d + 1) ELSE d

RECURSIVE skip_weekend(_)
skip_weekend(d) == IF weekday(d) >= 5 THEN skip_weekend(d + 1) ELSE d

next_trading_day(d) == skip_weekend(d + 1)

target_price_nonneg(item, ref) ==
    IF item.type = "price" /\ item.value >= 0 THEN item.value
    ELSE IF item.type = "percent" THEN (ref * (100 + item.value)) \div 100
    ELSE ref

target_price(item, ref) ==
    IF item.type = "price" /\ item.value > 0 THEN item.value
    ELSE IF item.type = "percent" THEN (ref * (100 + item.value)) \div 100
    ELSE ref

Max2(a, b) == IF a >= b THEN a ELSE b
Min2(a, b) == IF a <= b THEN a ELSE b

future_row_flat(d, ref, target_p) ==
    [date |-> d, open |-> ref, high |-> target_p, low |-> ref,
     close |-> target_p, volume |-> 0, is_predict |-> TRUE]

future_row(d, ref, target_p) ==
    [date |-> d, open |-> ref, high |-> Max2(ref, target_p), low |-> Min2(ref, target_p),
     close |-> target_p, volume |-> 0, is_predict |-> TRUE]

concat_swapped(a, b) == b \o a

concat(a, b) == a \o b

\* The sum of the closes of rows lo..hi, added up by halves so that the
\* evaluation depth grows with the logarithm of the window.
RECURSIVE SumClose(_, _, _)
SumClose(rows, lo, hi) ==
    IF lo > hi THEN 0
    ELSE IF lo = hi THEN rows[lo].close
    ELSE SumClose(rows, lo, (lo + hi) \div 2) + SumClose(rows, ((lo + hi) \div 2) + 1, hi)

rolling_mean_lagged(rows, m, i) ==
    IF i <= m THEN NaN ELSE <<SumClose(rows, i - m, i - 1) \div m>>

rolling_mean(rows, m, i) ==
    IF i < m THEN NaN ELSE <<SumClose(rows, i - m + 1, i) \div m>>

with_ma(rows) ==
    [i \in 1..Len(rows) |->
        [date |-> rows[i].date, open |-> rows[i].open, high |-> rows[i].high,
         low |-> rows[i].low, close |-> rows[i].close, volume |-> rows[i].volume,
         is_predict |-> rows[i].is_predict,
         MA5 |-> rolling_mean(rows, ma_list[1], i),
         MA10 |-> rolling_mean(rows, ma_list[2], i),
         MA20 |-> rolling_mean(rows, ma_list[3], i),
         MA60 |-> rolling_mean(rows, ma_list[4], i),
         MA120 |-> rolling_mean(rows, ma_list[5], i)]]

iloc_tail_wide(rows, n) ==
    IF Len(rows) <= n THEN rows ELSE SubSeq(rows, Len(rows) - n, Len(rows))

iloc_tail(rows, n) ==
    IF Len(rows) <= n THEN rows ELSE SubSeq(rows, Len(rows) - n + 1, Len(rows))

\* ------------------------------------------------------------ the actions
\* One pass of the sidebar loop: read the slot's widgets, append the setting.
SidebarStep ==
    /\ pc = "sidebar"
    /\ Len(predict_settings) < NumDays
    /\ LET i == Len(predict_settings) + 1
       IN  predict_settings' = Append(predict_settings,
               IF session[i].type = "price"
               THEN [type |-> "price", value |-> session[i].value]
               ELSE [type |-> "percent", value |-> session[i].value])
    /\ UNCHANGED <<pc, lookback, fetch_days, end_dt, start_dt, raw_df, outcome>>
    /\ UNCHANGED envVars /\ UNCHANGED bodyVars

\* The main page header: the slider, fetch_days and the date span.
SelectLookback ==
    /\ pc = "sidebar"
    /\ Len(predict_settings) = NumDays
    /\ lookback' = slider
    /\ fetch_days' = slider + FetchPad
    /\ end_dt' = Today0
    /\ start_dt' = Today0 - (slider + FetchPad)
    /\ pc' = "fetch"
    /\ UNCHANGED <<predict_settings, raw_df, outcome>>
    /\ UNCHANGED envVars /\ UNCHANGED bodyVars

Fetch ==
    /\ pc = "fetch"
    /\ raw_df' = get_stock_history_safe(market, start_dt, end_dt)
    /\ pc' = "branch"
    /\ UNCHANGED <<predict_settings, lookback, fetch_days, end_dt, start_dt, outcome>>
    /\ UNCHANGED envVars /\ UNCHANGED bodyVars

NoDataSilent ==
    /\ pc = "branch"
    /\ empty(raw_df)
    /\ pc' = "done"
    /\ UNCHANGED <<predict_settings, lookback, fetch_days, end_dt, start_dt, raw_df, outcome>>
    /\ UNCHANGED envVars /\ UNCHANGED bodyVars

\* else: st.warning(...)
NoData ==
    /\ pc = "branch"
    /\ empty(raw_df)
    /\ outcome' = "no_data"
    /\ pc' = "done"
    /\ UNCHANGED <<predict_settings, lookback, fetch_days, end_dt, start_dt, raw_df>>
    /\ UNCHANGED envVars /\ UNCHANGED bodyVars

\* if not raw_df.empty: copy, tag, take the reference price and date.
Prepare ==
    /\ pc = "branch"
    /\ ~empty(raw_df)
    /\ df' = [i \in 1..Len(raw_df) |->
                [date |-> raw_df[i].date, open |-> raw_df[i].open, high |-> raw_df[i].high,
                 low |-> raw_df[i].low, close |-> raw_df[i].close,
                 volume |-> raw_df[i].volume, is_predict |-> FALSE]]
    /\ last_price' = raw_df[Len(raw_df)].close
    /\ last_date' = raw_df[Len(raw_df)].date
    /\ future_rows' = <<>>
    /\ current_ref_price' = raw_df[Len(raw_df)].close
    /\ current_date' = raw_df[Len(raw_df)].date
    /\ pc' = "project"
    /\ UNCHANGED <<predict_settings, lookback, fetch_days, end_dt, start_dt, raw_df, outcome>>
    /\ UNCHANGED <<df_full, df_plot>>
    /\ UNCHANGED envVars

ProjectStepNoChain ==
    /\ pc = "project"
    /\ Len(future_rows) < Len(predict_settings)
    /\ LET item == predict_settings[Len(future_rows) + 1]
           d == next_trading_day(current_date)
           target_p == target_price(item, current_ref_price)
       IN  /\ future_rows' = Append(future_rows, future_row(d, current_ref_price, target_p))
           /\ current_date' = d
    /\ UNCHANGED <<pc, predict_settings, lookback, fetch_days, end_dt, start_dt, raw_df, outcome>>
    /\ UNCHANGED <<df, last_price, last_date, df_full, df_plot, current_ref_price>>
    /\ UNCHANGED envVars

\* One pass of "for item in predict_settings".
ProjectStep ==
    /\ pc = "project"
    /\ Len(future_rows) < Len(predict_settings)
    /\ LET item == predict_settings[Len(future_rows) + 1]
           d == next_trading_day(current_date)
           target_p == target_price(item, current_ref_price)
       IN  /\ future_rows' = Append(future_rows, future_row(d, current_ref_price, target_p))
           /\ current_ref_price' = target_p
           /\ current_date' = d
    /\ UNCHANGED <<pc, predict_settings, lookback, fetch_days, end_dt, start_dt, raw_df, outcome>>
    /\ UNCHANGED <<df, last_price, last_date, df_full, df_plot>>
    /\ UNCHANGED envVars

\* df_full = pd.concat([df, pd.DataFrame(future_rows)], ignore_index=True)
Merge ==
    /\ pc = "project"
    /\ Len(future_rows) = Len(predict_settings)
    /\ df_full' = concat(df, future_rows)
    /\ pc' = "ma"
    /\ UNCHANGED <<predict_settings, lookback, fetch_days, end_dt, start_dt, raw_df, outcome>>
    /\ UNCHANGED <<df, last_price, last_date, future_rows, current_ref_price, current_date,
                   df_plot>>
    /\ UNCHANGED envVars

\* for m in ma_list: df_full[f'MA{m}'] = df_full['close'].rolling(m).mean()
ComputeMA ==
    /\ pc = "ma"
    /\ df_full' = with_ma(df_full)
    /\ pc' = "slice"
    /\ UNCHANGED <<predict_settings, lookback, fetch_days, end_dt, start_dt, raw_df, outcome>>
    /\ UNCHANGED <<df, last_price, last_date, future_rows, current_ref_price, current_date,
                   df_plot>>
    /\ UNCHANGED envVars

\* df_plot = df_full.iloc[-(lookback + 5):]; the chart and the table follow.
Slice ==
    /\ pc = "slice"
    /\ df_plot' = iloc_tail(df_full, lookback + PlotExtra)
    /\ outcome' = "chart"
    /\ pc' = "done"
    /\ UNCHANGED <<predict_settings, lookback, fetch_days, end_dt, start_dt, raw_df>>
    /\ UNCHANGED <<df, last_price, last_date, future_rows, current_ref_price, current_date,
                   df_full>>
    /\ UNCHANGED envVars

Next ==
    \/ SidebarStep
    \/ SelectLookback
    \/ Fetch
    \/ NoData
    \/ Prepare
    \/ ProjectStep
    \/ Merge
    \/ ComputeMA
    \/ Slice

Spec == Init /\ [][Next]_vars
SpecDeep == InitDeep /\ [][Next]_vars

\* ------------------------------------------------------------ properties
Projected == 1..Len(future_rows)
RefClose == raw_df[Len(raw_df)].close
RefDate == raw_df[Len(raw_df)].date
PrevClose(k) == IF k = 1 THEN RefClose ELSE future_rows[k - 1].close
PrevDate(k) == IF k = 1 THEN RefDate ELSE future_rows[k - 1].date
IsNoOp(item) == item.type = "price" /\ item.value <= 0
Merged == pc \in {"ma", "slice", "done"} /\ raw_df # <<>>
Averaged == pc \in {"slice", "done"} /\ raw_df # <<>>
StrictDates(rows) == \A i \in 1..(Len(rows) - 1) : rows[i].date < rows[i + 1].date
Core(r) == [date |-> r.date, open |-> r.open, high |-> r.high, low |-> r.low,
            close |-> r.close, volume |-> r.volume]
MergedClose(j) ==
    IF j <= Len(raw_df) THEN raw_df[j].close ELSE future_rows[j - Len(raw_df)].close
RECURSIVE SumMerged(_, _)
SumMerged(lo, hi) ==
    IF lo > hi THEN 0
    ELSE IF hi - lo < 4 THEN MergedClose(lo) + SumMerged(lo + 1, hi)
    ELSE SumMerged(lo, lo + ((hi - lo) \div 2)) + SumMerged(lo + ((hi - lo) \div 2) + 1, hi)
MAof(r, w) ==
    CASE w = 5 -> r.MA5 [] w = 10 -> r.MA10 [] w = 20 -> r.MA20
      [] w = 60 -> r.MA60 [] w = 120 -> r.MA120

\* C1: the first projected open is the last historical close, every later
\* open is the previous projected close, a positive price target is the
\* close, a percent target p gives close = open * (1 + p/100), and a list of
\* percent-0 targets keeps every close at the reference price.
C1_ChainedPrices ==
    /\ \A k \in Projected :
          /\ future_rows[k].open = PrevClose(k)
          /\ (predict_settings[k].type = "price" /\ predict_settings[k].value > 0)
                => future_rows[k].close = predict_settings[k].value
          /\ predict_settings[k].type = "percent"
                => future_rows[k].close * 100
                     = future_rows[k].open * (100 + predict_settings[k].value)
    /\ (\A k \in 1..Len(predict_settings) :
            predict_settings[k] = [type |-> "percent", value |-> 0])
          => \A k \in Projected : future_rows[k].close = RefClose

C1_Witness ==
    /\ pc = "done" /\ outcome = "chart"
    /\ predict_settings[1] = [type |-> "percent", value |-> -50]
    /\ predict_settings[2] = [type |-> "percent", value |-> -50]
    /\ future_rows[2].open # RefClose
    /\ future_rows[2].close * 4 = RefClose

\* C2: projection emits one bar per target, five in all, and each bar's date
\* is the earliest Monday-to-Friday day strictly after the previous bar's
\* date (the last historical date for the first bar).
C2_TradingDates ==
    /\ \A k \in Projected :
          /\ future_rows[k].date > PrevDate(k)
          /\ weekday(future_rows[k].date) \notin {5, 6}
          /\ \A e \in (PrevDate(k) + 1)..(future_rows[k].date - 1) : weekday(e) \in {5, 6}
    /\ outcome = "chart"
          => /\ Len(future_rows) = Len(predict_settings)
             /\ Len(predict_settings) \in 1..5

C2_Witness ==
    /\ pc = "done" /\ outcome = "chart"
    /\ weekday(RefDate) = 4
    /\ future_rows[1].date = RefDate + 3
    /\ future_rows[2].date = RefDate + 4

\* C3: for every window w of ma_list and every index i of the merged series
\* the average is undefined exactly when fewer than w bars end at i, and is
\* otherwise the sum of the w merged closes ending at i divided by w.
C3_MovingAverages ==
    Averaged =>
        \A i \in 1..Len(df_full) : \A n \in 1..Len(ma_list) :
            LET w == ma_list[n]
                v == MAof(df_full[i], w)
            IN  /\ (v = NaN) <=> (i < w)
                /\ i >= w => (Len(v) = 1 /\ v[1] * w = SumMerged(i - w + 1, i))

C3_Witness ==
    /\ pc = "done" /\ outcome = "chart"
    /\ Len(raw_df) >= 120
    /\ df_full[Len(df_full)].is_predict
    /\ df_full[Len(df_full)].MA120 # NaN
    /\ df_full[Len(df_full)].MA5 # df_full[Len(raw_df)].MA5
    /\ df_full[4].MA5 = NaN

\* C4: the plotted slice is the trailing lookback + len(targets) rows of the
\* merged series, in order and with the averages computed on the full
\* series; a shorter series is returned whole.
C4_DisplaySelection ==
    (pc = "done" /\ outcome = "chart") =>
        LET N == Len(df_full)
            k == lookback + Len(predict_settings)
            n == Len(df_plot)
        IN  /\ n = (IF N < k THEN N ELSE k)
            /\ \A j \in 1..n : df_plot[j] = df_full[N - n + j]

C4_Witness ==
    /\ pc = "done" /\ outcome = "chart"
    /\ Len(df_full) > lookback + Len(predict_settings)
    /\ Len(df_plot) = lookback + Len(predict_settings)
    /\ df_plot[1] = df_full[Len(df_full) - lookback - Len(predict_settings) + 1]

\* C5: an empty history ends the run in the "no data" outcome with no
\* projected bar, no merged series, no averages and no slice.
C5_NoData ==
    /\ (pc = "done" /\ raw_df = <<>>) => outcome = "no_data"
    /\ (pc \in {"branch", "done"} /\ raw_df = <<>>)
          => /\ df = <<>> /\ future_rows = <<>> /\ df_full = <<>> /\ df_plot = <<>>
    /\ pc \in {"project", "ma", "slice"} => raw_df # <<>>

C5_Witness == pc = "done" /\ raw_df = <<>> /\ outcome = "no_data"

\* C6: a price target that is not positive is a no-op at any position: the
\* bar is emitted on the next trading day with close = open = the running
\* price, and the running price handed to the next target is unchanged.
C6_NoOpTarget ==
    /\ \A k \in Projected :
          IsNoOp(predict_settings[k]) =>
             /\ future_rows[k].open = PrevClose(k)
             /\ future_rows[k].close = future_rows[k].open
             /\ future_rows[k].date > PrevDate(k)
             /\ weekday(future_rows[k].date) < 5
             /\ k < Len(future_rows) => future_rows[k + 1].open = future_rows[k].open
             /\ k = Len(future_rows) => current_ref_price = future_rows[k].open
    /\ pc = "done" /\ raw_df # <<>> => outcome = "chart"

C6_Witness ==
    /\ pc = "done" /\ outcome = "chart"
    /\ predict_settings[1].type = "percent"
    /\ IsNoOp(predict_settings[2])
    /\ future_rows[2].close = future_rows[1].close
    /\ future_rows[2].close # RefClose
    /\ future_rows[3].open = future_rows[1].close

\* C7: for a history with strictly increasing dates the merged series is the
\* historical bars in input order, untagged, followed by the projected bars
\* in emission order, tagged, and its dates are strictly increasing.
C7_MergedSeries ==
    (Merged /\ StrictDates(raw_df)) =>
        /\ Len(df_full) = Len(raw_df) + Len(predict_settings)
        /\ \A i \in 1..Len(df_full) :
              IF i <= Len(raw_df)
              THEN ~df_full[i].is_predict /\ Core(df_full[i]) = raw_df[i]
              ELSE /\ df_full[i].is_predict
                   /\ Core(df_full[i]) = Core(future_rows[i - Len(raw_df)])
        /\ StrictDates(df_full)

C7_Witness ==
    /\ pc = "done" /\ outcome = "chart"
    /\ Len(raw_df) = 2 /\ StrictDates(raw_df)
    /\ Len(df_full) = 7
    /\ ~df_full[2].is_predict /\ df_full[3].is_predict

\* C8: a history whose dates are not strictly increasing ends the run in a
\* validation failure, an outcome of its own.
C8_ValidationFailure ==
    (pc = "done" /\ ~StrictDates(raw_df)) => outcome = "validation_failure"

\* C9: every projected bar has high = max(open, close), low = min(open,
\* close) and volume 0, in the emitted rows, the merged series and the slice.
BarShape(r) ==
    /\ r.high >= r.open /\ r.high >= r.close /\ r.high \in {r.open, r.close}
    /\ r.low <= r.open /\ r.low <= r.close /\ r.low \in {r.open, r.close}
    /\ r.volume = 0

C9_ProjectedBarShape ==
    /\ \A k \in Projected : BarShape(future_rows[k])
    /\ \A i \in 1..Len(df_full) : df_full[i].is_predict => BarShape(df_full[i])
    /\ \A i \in 1..Len(df_plot) : df_plot[i].is_predict => BarShape(df_plot[i])

C9_Witness ==
    /\ pc = "done" /\ outcome = "chart"
    /\ \E i, j, k \in 1..Len(df_plot) :
          /\ df_plot[i].is_predict /\ df_plot[i].close < df_plot[i].open
          /\ df_plot[j].is_predict /\ df_plot[j].close > df_plot[j].open
          /\ df_plot[k].is_predict /\ df_plot[k].close = df_plot[k].open

\* C10: with one historical bar for every weekday of the fetched span, the
\* leftmost plotted bar has a defined MA120.
C10_LeftEdgeHasMA120 ==
    (pc = "done" /\ market.kind = "calendar") => df_plot[1].MA120 # NaN

TypeOK == pc \in {"sidebar", "fetch", "branch", "project", "ma", "slice", "done"}
====
